---- MODULE Spec2Model ----
(***************************************************************************)
(* Model of the IEX TOPS 1.6 message decoder of src/src/tops.rs.           *)
(*                                                                         *)
(* A byte buffer is a sequence of numbers in 0..255.  A parser result is   *)
(* nom's IResult: Ok((rest, value)) or Err(Err::Error(Error{input,code})). *)
(* Every parser of tops.rs is built from nom's `complete` combinators,     *)
(* which never produce Err::Incomplete or Err::Failure.                    *)
(*                                                                         *)
(* Number representation: a u32 is an integer; a 64-bit quantity (i64      *)
(* timestamp, i64 trade id, 8-byte price) is kept as its four 16-bit       *)
(* limbs, least significant first, because it exceeds TLC's 32-bit         *)
(* integers.  A price is represented by its scaled integer (units of       *)
(* 1/10000).                                                               *)
(***************************************************************************)
EXTENDS Integers, Sequences, FiniteSets, TLC

VARIABLES orig, remaining, arg, out, yielded, calls, pc

vars == <<orig, remaining, arg, out, yielded, calls, pc>>

(***************************************************************************)
(* Evaluation helpers: a value is computed once and then named.            *)
(***************************************************************************)

The(S) == CHOOSE x \in S : TRUE

\* let x = v; K(x)
With(v, K(_)) == The({K(x) : x \in {v}})

\* let x = r?; K(x): an Err returns from the enclosing parser, an Ok goes on.
Try(r, K(_)) == The({IF x.ok THEN K(x) ELSE x : x \in {r}})

(***************************************************************************)
(* nom results and byte-level combinators                                  *)
(***************************************************************************)

Drop(s, n) == SubSeq(s, n + 1, Len(s))

\* Ok((rest, value))
Ok(rest, v) == [ok |-> TRUE, rest |-> rest, value |-> v]

\* Err(Err::Error(Error { input, code }))
ErrError(input, code) == [ok |-> FALSE, variant |-> "Error", input |-> input, code |-> code]

\* nom::bytes::complete::tag([t]): a one-byte literal.
tag(t, input) ==
  With(input, LAMBDA i :
    IF Len(i) >= 1 /\ i[1] = t
      THEN Ok(Drop(i, 1), <<t>>)
      ELSE ErrError(i, "Tag"))

\* nom::bytes::complete::take(n)
take(n, input) ==
  With(input, LAMBDA i :
    IF Len(i) >= n
      THEN Ok(Drop(i, n), SubSeq(i, 1, n))
      ELSE ErrError(i, "Eof"))

\* nom::number::complete::le_u32
le_u32(input) ==
  With(input, LAMBDA i :
    IF Len(i) < 4
      THEN ErrError(i, "Eof")
      ELSE Ok(Drop(i, 4), i[1] + 256 * i[2] + 65536 * i[3] + 16777216 * i[4]))

\* The four 16-bit limbs of an 8-byte little-endian quantity.
Limbs(b) == [k \in 1..4 |-> b[2 * k - 1] + 256 * b[2 * k]]

\* nom::number::complete::le_i64
le_i64(input) ==
  With(input, LAMBDA i :
    IF Len(i) < 8
      THEN ErrError(i, "Eof")
      ELSE Ok(Drop(i, 8), With(SubSeq(i, 1, 8), Limbs)))

\* nom::combinator::map and value: the value of a success is replaced, an error passes.
map(r, v) == Try(r, LAMBDA x : Ok(x.rest, v))

(***************************************************************************)
(* crate::utils (not part of src/): widths fixed by the reference vectors  *)
(* of the tests in tops.rs, conversions as documented.                     *)
(***************************************************************************)

TimestampLen == 8
PriceLen == 8
SymbolLen == 8
Space == 32

\* utils::timestamp: 8-byte little-endian signed nanoseconds since the epoch.
timestamp(input) ==
  With(input, LAMBDA i :
    IF Len(i) < TimestampLen
      THEN ErrError(i, "Eof")
      ELSE Ok(Drop(i, TimestampLen), With(SubSeq(i, 1, TimestampLen), Limbs)))

\* utils::price: little-endian integer scaled by 10000.
price(input) ==
  With(input, LAMBDA i :
    IF Len(i) < PriceLen
      THEN ErrError(i, "Eof")
      ELSE Ok(Drop(i, PriceLen), With(SubSeq(i, 1, PriceLen), Limbs)))

\* The number of bytes of s left when its trailing spaces are removed.
RECURSIVE TrimmedLen(_, _)
TrimmedLen(s, n) ==
  IF n > 0 /\ s[n] = Space THEN TrimmedLen(s, n - 1) ELSE n

\* utils::iex_string(n): n bytes with the trailing space padding removed.
iex_string(n, input) ==
  With(input, LAMBDA i :
    IF Len(i) < n
      THEN ErrError(i, "Eof")
      ELSE Ok(Drop(i, n), SubSeq(i, 1, TrimmedLen(i, n))))

(***************************************************************************)
(* nom::bits: a bit cursor is a pair (bytes, bit offset).                  *)
(***************************************************************************)

Pow2(n) == 2 ^ n

\* The loop of nom::bits::complete::take over the first cnt + 1 bytes: c is
\* [idx, offset, rem, acc, endOffset].
RECURSIVE BitsLoop(_, _, _)
BitsLoop(input, last, c) ==
  IF c.idx > last \/ c.idx > Len(input) \/ c.rem = 0
    THEN c
    ELSE With(IF c.offset = 0 THEN input[c.idx] ELSE input[c.idx] % Pow2(8 - c.offset),
           LAMBDA val :
             IF c.rem < 8 - c.offset
               THEN [c EXCEPT !.acc = c.acc + (val \div Pow2(8 - c.offset - c.rem)),
                              !.endOffset = c.rem + c.offset]
               ELSE With([c EXCEPT !.idx = c.idx + 1,
                                   !.offset = 0,
                                   !.rem = c.rem - (8 - c.offset),
                                   !.acc = c.acc + val * Pow2(c.rem - (8 - c.offset))],
                      LAMBDA d : BitsLoop(input, last, d)))

\* nom::bits::complete::take(count) at cursor cur = [input, off], most
\* significant bit first.
BitsTake(count, cur) ==
  IF count = 0
    THEN [ok |-> TRUE, input |-> cur.input, off |-> cur.off, value |-> 0]
    ELSE IF Len(cur.input) * 8 < count + cur.off
      THEN [ok |-> FALSE, input |-> cur.input, off |-> cur.off, code |-> "Eof"]
      ELSE With(BitsLoop(cur.input, ((count + cur.off) \div 8) + 1,
                         [idx |-> 1, offset |-> cur.off, rem |-> count,
                          acc |-> 0, endOffset |-> 0]),
             LAMBDA l :
               [ok |-> TRUE, input |-> Drop(cur.input, (count + cur.off) \div 8),
                off |-> l.endOffset, value |-> l.acc])

\* nom::bits::complete::bool
BitsBool(cur) ==
  Try(BitsTake(1, cur), LAMBDA r : [r EXCEPT !.value = (r.value # 0)])

\* nom::bits::complete::tag(pattern, count)
BitsTag(pattern, count, cur) ==
  Try(BitsTake(count, cur), LAMBDA r :
    IF r.value = pattern THEN r
    ELSE [ok |-> FALSE, input |-> cur.input, off |-> cur.off, code |-> "TagBits"])

\* nom::bits::bits, entry: the bit cursor at the start of the bytes.
BitsStart(input) == [input |-> input, off |-> 0]

\* nom::bits::bits, exit: back from a bit cursor to bytes; a partially read
\* byte is dropped; an error keeps its bytes and its kind.
BitsFinish(r, v) ==
  IF r.ok
    THEN Ok(Drop(r.input, (r.off \div 8) + (IF r.off % 8 = 0 THEN 0 ELSE 1)), v)
    ELSE ErrError(r.input, r.code)

\* The ? of a bit-level tuple inside bits(...): a failed component ends bits
\* with its converted error, a success goes on.
BitsTry(r, K(_)) == The({IF x.ok THEN K(x) ELSE BitsFinish(x, 0) : x \in {r}})

(***************************************************************************)
(* Message shape decoders                                                  *)
(***************************************************************************)

TagSystemEvent == 83                 \* 0x53
TagSecurityDirectory == 68           \* 0x44
TagTradingStatus == 72               \* 0x48
TagRetailLiquidityIndicator == 73    \* 0x49
TagOperationalHaltStatus == 79       \* 0x4f
TagShortSalePriceTestStatus == 80    \* 0x50
TagQuoteUpdate == 81                 \* 0x51
TagTradeReport == 84                 \* 0x54
TagOfficialPrice == 88               \* 0x58
TagTradeBreak == 66                  \* 0x42
TagAuctionInformation == 65          \* 0x41

\* Mutant: the subtype bytes of StartOfMessages and EndOfSystemHours exchanged.
SystemEventTypesSwapped ==
  << <<69, "StartOfMessages">>,
     <<83, "StartOfSystemHours">>,
     <<82, "StartOfRegularHours">>,
     <<77, "EndOfRegularHours">>,
     <<79, "EndOfSystemHours">>,
     <<67, "EndOfMessages">> >>

\* The alternatives of system_event's inner alt, in order: <<subtype byte, kind>>.
SystemEventTypes ==
  << <<79, "StartOfMessages">>,      \* 0x4f
     <<83, "StartOfSystemHours">>,   \* 0x53
     <<82, "StartOfRegularHours">>,  \* 0x52
     <<77, "EndOfRegularHours">>,    \* 0x4d
     <<69, "EndOfSystemHours">>,     \* 0x45
     <<67, "EndOfMessages">> >>      \* 0x43

\* alt over value(kind, tag([byte])): the first matching literal wins; when none
\* matches, the error of the last alternative is returned.
RECURSIVE EventTypeAlt(_, _, _)
EventTypeAlt(types, k, input) ==
  With(map(tag(types[k][1], input), types[k][2]), LAMBDA r :
    IF r.ok \/ k = Len(types) THEN r ELSE EventTypeAlt(types, k + 1, input))

\* Mutant: the cursor returned is the one before the timestamp.
system_event_cursor_before_timestamp(input) ==
  Try(tag(TagSystemEvent, input), LAMBDA r1 :
  Try(EventTypeAlt(SystemEventTypes, 1, r1.rest), LAMBDA r2 :
  Try(timestamp(r2.rest), LAMBDA r3 :
  Ok(r2.rest, [event_type |-> r2.value, timestamp |-> r3.value]))))

system_event(input) ==
  Try(tag(TagSystemEvent, input), LAMBDA r1 :
  Try(EventTypeAlt(SystemEventTypes, 1, r1.rest), LAMBDA r2 :
  Try(timestamp(r2.rest), LAMBDA r3 :
  Ok(r3.rest, [event_type |-> r2.value, timestamp |-> r3.value]))))

\* Mutant: the 6 reserved bits are skipped, not matched against zero.
QuoteFlagsLenient(input) ==
  BitsTry(BitsBool(BitsStart(input)), LAMBDA b1 :
  BitsTry(BitsBool(b1), LAMBDA b2 :
  BitsTry(BitsTake(6, b2), LAMBDA t :
  BitsFinish(t, <<b1.value, b2.value, t.value>>))))

\* bits(tuple((bool, bool, tag(0u8, 6)))) of quote_update.
QuoteFlags(input) ==
  BitsTry(BitsBool(BitsStart(input)), LAMBDA b1 :
  BitsTry(BitsBool(b1), LAMBDA b2 :
  BitsTry(BitsTag(0, 6, b2), LAMBDA t :
  BitsFinish(t, <<b1.value, b2.value, t.value>>))))

\* Mutant: the wire flag is copied into available without negation.
quote_update_available_raw(input) ==
  Try(tag(TagQuoteUpdate, input), LAMBDA r1 :
  Try(QuoteFlags(r1.rest), LAMBDA r2 :
  Try(timestamp(r2.rest), LAMBDA r3 :
  Try(iex_string(SymbolLen, r3.rest), LAMBDA r4 :
  Try(le_u32(r4.rest), LAMBDA r5 :
  Try(price(r5.rest), LAMBDA r6 :
  Try(price(r6.rest), LAMBDA r7 :
  Try(le_u32(r7.rest), LAMBDA r8 :
  Ok(r8.rest,
     [available |-> r2.value[1],
      market_session |-> IF r2.value[2] THEN "OutOfHours" ELSE "Regular",
      timestamp |-> r3.value,
      symbol |-> r4.value,
      bid_size |-> r5.value,
      bid_price |-> r6.value,
      ask_size |-> r8.value,
      ask_price |-> r7.value])))))))))

\* Mutant: the ask side is read size first, like the bid side.
quote_update_symmetric(input) ==
  Try(tag(TagQuoteUpdate, input), LAMBDA r1 :
  Try(QuoteFlags(r1.rest), LAMBDA r2 :
  Try(timestamp(r2.rest), LAMBDA r3 :
  Try(iex_string(SymbolLen, r3.rest), LAMBDA r4 :
  Try(le_u32(r4.rest), LAMBDA r5 :
  Try(price(r5.rest), LAMBDA r6 :
  Try(le_u32(r6.rest), LAMBDA r7 :
  Try(price(r7.rest), LAMBDA r8 :
  Ok(r8.rest,
     [available |-> ~r2.value[1],
      market_session |-> IF r2.value[2] THEN "OutOfHours" ELSE "Regular",
      timestamp |-> r3.value,
      symbol |-> r4.value,
      bid_size |-> r5.value,
      bid_price |-> r6.value,
      ask_size |-> r7.value,
      ask_price |-> r8.value])))))))))

quote_update(input) ==
  Try(tag(TagQuoteUpdate, input), LAMBDA r1 :
  Try(QuoteFlags(r1.rest), LAMBDA r2 :
  Try(timestamp(r2.rest), LAMBDA r3 :
  Try(iex_string(SymbolLen, r3.rest), LAMBDA r4 :
  Try(le_u32(r4.rest), LAMBDA r5 :
  Try(price(r5.rest), LAMBDA r6 :
  Try(price(r6.rest), LAMBDA r7 :
  Try(le_u32(r7.rest), LAMBDA r8 :
  Ok(r8.rest,
     [available |-> ~r2.value[1],
      market_session |-> IF r2.value[2] THEN "OutOfHours" ELSE "Regular",
      timestamp |-> r3.value,
      symbol |-> r4.value,
      bid_size |-> r5.value,
      bid_price |-> r6.value,
      ask_size |-> r8.value,
      ask_price |-> r7.value])))))))))

sale_condition(input) ==
  BitsTry(BitsBool(BitsStart(input)), LAMBDA b1 :
  BitsTry(BitsBool(b1), LAMBDA b2 :
  BitsTry(BitsBool(b2), LAMBDA b3 :
  BitsTry(BitsBool(b3), LAMBDA b4 :
  BitsTry(BitsBool(b4), LAMBDA b5 :
  BitsTry(BitsTag(0, 3, b5), LAMBDA t :
  BitsFinish(t, [intermarket_sweep |-> b1.value,
                 extended_hours |-> b2.value,
                 odd_lot |-> b3.value,
                 trade_through_exempt |-> b4.value,
                 single_price |-> b5.value])))))))

\* Mutant: the trade id is read as 4 bytes.
trade_report_id_u32(input) ==
  Try(tag(TagTradeReport, input), LAMBDA r1 :
  Try(sale_condition(r1.rest), LAMBDA r2 :
  Try(timestamp(r2.rest), LAMBDA r3 :
  Try(iex_string(SymbolLen, r3.rest), LAMBDA r4 :
  Try(le_u32(r4.rest), LAMBDA r5 :
  Try(price(r5.rest), LAMBDA r6 :
  Try(le_u32(r6.rest), LAMBDA r7 :
  Ok(r7.rest,
     [sale_condition |-> r2.value,
      timestamp |-> r3.value,
      symbol |-> r4.value,
      size |-> r5.value,
      price |-> r6.value,
      id |-> r7.value]))))))))

trade_report(input) ==
  Try(tag(TagTradeReport, input), LAMBDA r1 :
  Try(sale_condition(r1.rest), LAMBDA r2 :
  Try(timestamp(r2.rest), LAMBDA r3 :
  Try(iex_string(SymbolLen, r3.rest), LAMBDA r4 :
  Try(le_u32(r4.rest), LAMBDA r5 :
  Try(price(r5.rest), LAMBDA r6 :
  Try(le_i64(r6.rest), LAMBDA r7 :
  Ok(r7.rest,
     [sale_condition |-> r2.value,
      timestamp |-> r3.value,
      symbol |-> r4.value,
      size |-> r5.value,
      price |-> r6.value,
      id |-> r7.value]))))))))

\* Mutant: the length is taken to include the tag byte.
dummy_message_parser_len_with_tag(t, len, input) ==
  Try(tag(t, input), LAMBDA r1 :
  Try(take(len - 1, r1.rest), LAMBDA r2 :
  Ok(r2.rest, "unit")))

\* dummy_message_parser!(tag, len, name): the tag, then len uninterpreted bytes.
dummy_message_parser(t, len, input) ==
  Try(tag(t, input), LAMBDA r1 :
  Try(take(len, r1.rest), LAMBDA r2 :
  Ok(r2.rest, "unit")))

\* Mutant: trade_break declared with the tag of QuoteUpdate.
trade_break_quote_tag(input) == dummy_message_parser(TagQuoteUpdate, 37, input)

security_directory(input) == dummy_message_parser(TagSecurityDirectory, 30, input)
trading_status(input) == dummy_message_parser(TagTradingStatus, 21, input)
retail_liquidity_indicator(input) == dummy_message_parser(TagRetailLiquidityIndicator, 17, input)
operational_halt_status(input) == dummy_message_parser(TagOperationalHaltStatus, 17, input)
short_sale_price_test_status(input) == dummy_message_parser(TagShortSalePriceTestStatus, 18, input)
official_price(input) == dummy_message_parser(TagOfficialPrice, 25, input)
trade_break(input) == dummy_message_parser(TagTradeBreak, 37, input)
auction_information(input) == dummy_message_parser(TagAuctionInformation, 79, input)

(***************************************************************************)
(* Tops1_6Message and the top-level dispatcher                             *)
(***************************************************************************)

\* A payload-free variant of Tops1_6Message.
Marker(kind) == [kind |-> kind]

\* A variant of Tops1_6Message carrying a record.
Variant(kind, payload) == [kind |-> kind, payload |-> payload]

\* map(parser, Tops1_6Message::Kind)
MapVariant(r, kind) == Try(r, LAMBDA x : Ok(x.rest, Variant(kind, x.value)))

\* The alternatives of tops_1_6_message, in the order of its alt.
Alternatives ==
  << "SystemEvent", "SecurityDirectory", "TradingStatus", "RetailLiquidityIndicator",
     "OperationalHaltStatus", "ShortSalePriceTestStatus", "QuoteUpdate", "TradeReport",
     "OfficialPrice", "TradeBreak", "AuctionInformation" >>

\* One alternative: map(shape decoder, variant constructor).
Alternative(kind, input) ==
  CASE kind = "SystemEvent" -> MapVariant(system_event(input), kind)
    [] kind = "SecurityDirectory" -> map(security_directory(input), Marker(kind))
    [] kind = "TradingStatus" -> map(trading_status(input), Marker(kind))
    [] kind = "RetailLiquidityIndicator" -> map(retail_liquidity_indicator(input), Marker(kind))
    [] kind = "OperationalHaltStatus" -> map(operational_halt_status(input), Marker(kind))
    [] kind = "ShortSalePriceTestStatus" -> map(short_sale_price_test_status(input), Marker(kind))
    [] kind = "QuoteUpdate" -> MapVariant(quote_update(input), kind)
    [] kind = "TradeReport" -> MapVariant(trade_report(input), kind)
    [] kind = "OfficialPrice" -> map(official_price(input), Marker(kind))
    [] kind = "TradeBreak" -> map(trade_break(input), Marker(kind))
    [] kind = "AuctionInformation" -> map(auction_information(input), Marker(kind))

\* nom::branch::alt: the alternatives are tried in order on the same input; the
\* first result that is not Err::Error is returned; when all fail, Error::or and
\* Error::append of nom::error::Error keep the error of the last alternative.
RECURSIVE alt(_, _, _)
alt(order, k, input) ==
  With(Alternative(order[k], input), LAMBDA r :
    IF r.ok \/ k = Len(order) THEN r ELSE alt(order, k + 1, input))

tops_1_6_message(input) == alt(Alternatives, 1, input)

(* Wire lengths (tag included), as the sum of the widths each decoder      *)
(* consumes.                                                               *)
(***************************************************************************)

MessageLen(kind) ==
  CASE kind = "SystemEvent" -> 1 + 1 + TimestampLen
    [] kind = "SecurityDirectory" -> 1 + 30
    [] kind = "TradingStatus" -> 1 + 21
    [] kind = "RetailLiquidityIndicator" -> 1 + 17
    [] kind = "OperationalHaltStatus" -> 1 + 17
    [] kind = "ShortSalePriceTestStatus" -> 1 + 18
    [] kind = "QuoteUpdate" -> 1 + 1 + TimestampLen + SymbolLen + 4 + PriceLen + PriceLen + 4
    [] kind = "TradeReport" -> 1 + 1 + TimestampLen + SymbolLen + 4 + PriceLen + 8
    [] kind = "OfficialPrice" -> 1 + 25
    [] kind = "TradeBreak" -> 1 + 37
    [] kind = "AuctionInformation" -> 1 + 79

TagOf(kind) ==
  CASE kind = "SystemEvent" -> TagSystemEvent
    [] kind = "SecurityDirectory" -> TagSecurityDirectory
    [] kind = "TradingStatus" -> TagTradingStatus
    [] kind = "RetailLiquidityIndicator" -> TagRetailLiquidityIndicator
    [] kind = "OperationalHaltStatus" -> TagOperationalHaltStatus
    [] kind = "ShortSalePriceTestStatus" -> TagShortSalePriceTestStatus
    [] kind = "QuoteUpdate" -> TagQuoteUpdate
    [] kind = "TradeReport" -> TagTradeReport
    [] kind = "OfficialPrice" -> TagOfficialPrice
    [] kind = "TradeBreak" -> TagTradeBreak
    [] kind = "AuctionInformation" -> TagAuctionInformation

Kinds == {Alternatives[k] : k \in 1..Len(Alternatives)}

KnownTags == {TagOf(kind) : kind \in Kinds}

KindOfTag(t) == CHOOSE kind \in Kinds : TagOf(kind) = t

(***************************************************************************)
(* Input buffers                                                           *)
(***************************************************************************)

\* Bounds of the enumerated inputs.
MaxExtra == 1      \* bytes that may follow a full-length frame
NumFills == 2      \* body patterns per tag
MaxMsgs == 3       \* messages in a stream

\* The reference vectors of tests::quote_update_example, trade_report_example
\* and system_event_message.
QuoteVector ==
  << 81, 0, 172, 99, 192, 32, 150, 134, 109, 20, 90, 73, 69, 88,
     84, 32, 32, 32, 228, 37, 0, 0, 36, 29, 15, 0, 0, 0,
     0, 0, 236, 29, 15, 0, 0, 0, 0, 0, 232, 3, 0, 0 >>

TradeVector ==
  << 84, 0, 195, 223, 247, 5, 162, 134, 109, 20, 90, 73, 69, 88,
     84, 32, 32, 32, 100, 0, 0, 0, 36, 29, 15, 0, 0, 0,
     0, 0, 150, 143, 6, 0, 0, 0, 0, 0 >>

SystemEventVector == << 83, 69, 0, 160, 153, 151, 233, 61, 182, 20 >>

\* Tags no alternative matches: 0xFF, 0x45 (a SystemEvent subtype only), 0x00.
UnknownTags == {255, 69, 0}

\* A synthetic byte for position i of body pattern fill; every byte is below 128.
Pattern(fill, i) == (37 * fill + 11 * i) % 128

FrameLen(t) == IF t \in KnownTags THEN MessageLen(KindOfTag(t)) ELSE 10

\* The full-length frame of tag t and body pattern fill; pattern 0 of the three
\* decoded kinds is the reference vector.
Template(t, fill) ==
  IF fill = 0 /\ t = TagQuoteUpdate THEN QuoteVector
  ELSE IF fill = 0 /\ t = TagTradeReport THEN TradeVector
  ELSE IF fill = 0 /\ t = TagSystemEvent THEN SystemEventVector
  ELSE [i \in 1..FrameLen(t) |-> IF i = 1 THEN t ELSE Pattern(fill, i)]

\* Template base with second byte b1, cut or extended to len bytes.
Frame(base, b1, len) ==
  [i \in 1..len |-> IF i = 2 THEN b1
                    ELSE IF i <= Len(base) THEN base[i]
                    ELSE Pattern(0, i)]

Fills == 0..(NumFills - 1)

\* Second bytes of the length sweep: the six SystemEvent subtypes, flag bytes with
\* and without reserved bits, and unassigned values.
SecondBytes == {0, 1, 64, 67, 69, 77, 79, 82, 83, 128, 255}

\* Every flag byte, for the two decoded kinds, around the lengths that matter.
FlagSweep ==
  UNION { { Frame(Template(t, fill), b1, len) :
              fill \in Fills, b1 \in 0..255,
              len \in {2, 1 + 33} \cup ((FrameLen(t) - 1)..(FrameLen(t) + MaxExtra)) } :
          t \in {TagQuoteUpdate, TagTradeReport} }

\* Every length up to the full frame and beyond, for every tag.
LengthSweep ==
  UNION { { Frame(Template(t, fill), b1, len) :
              fill \in Fills, b1 \in SecondBytes, len \in 0..(FrameLen(t) + MaxExtra) } :
          t \in KnownTags \cup UnknownTags }

StreamMessages ==
  << SystemEventVector, QuoteVector, TradeVector,
     Template(TagOperationalHaltStatus, 1),
     Frame(Template(TagSystemEvent, 1), 79, FrameLen(TagSystemEvent)) >>

\* What may follow the messages of a stream: nothing, the first 5 bytes of a
\* QuoteUpdate, an unknown tag, a QuoteUpdate with a reserved flag bit set.
StreamTails ==
  { <<>>, SubSeq(QuoteVector, 1, 5), <<255>>, Frame(QuoteVector, 1, Len(QuoteVector)) }

RECURSIVE Concat(_, _)
Concat(choice, k) ==
  IF k > Len(choice) THEN <<>>
  ELSE StreamMessages[choice[k]] \o Concat(choice, k + 1)

Streams ==
  UNION { { Concat(choice, 1) \o tail :
              choice \in [1..n -> 1..Len(StreamMessages)], tail \in StreamTails } :
          n \in 2..MaxMsgs }

Buffers == FlagSweep \cup LengthSweep \cup Streams

(***************************************************************************)
(* The caller: decode at the cursor, keep the record, move to the          *)
(* remainder; stop at the end of the buffer or at the first failure.       *)
(***************************************************************************)

NotCalled == [ok |-> FALSE, variant |-> "NotCalled", input |-> <<>>, code |-> "None"]

Init ==
  /\ orig \in Buffers
  /\ remaining = orig
  /\ arg = <<>>
  /\ out = NotCalled
  /\ yielded = <<>>
  /\ calls = 0
  /\ pc = "ready"

\* A call of tops_1_6_message that returns Ok((rest, message)).
DecodeOk ==
  /\ pc = "ready"
  /\ remaining # <<>>
  /\ \E r \in {tops_1_6_message(remaining)} :
        /\ r.ok
        /\ arg' = remaining
        /\ out' = r
        /\ yielded' = Append(yielded, [at |-> Len(orig) - Len(remaining), msg |-> r.value])
        /\ remaining' = r.rest
  /\ calls' = calls + 1
  /\ UNCHANGED <<orig, pc>>

\* A call of tops_1_6_message that returns Err: no record, the cursor stays.
DecodeErr ==
  /\ pc = "ready"
  /\ remaining # <<>>
  /\ \E r \in {tops_1_6_message(remaining)} :
        /\ ~r.ok
        /\ arg' = remaining
        /\ out' = r
  /\ calls' = calls + 1
  /\ pc' = "failed"
  /\ UNCHANGED <<orig, remaining, yielded>>

\* The buffer is used up.
Finish ==
  /\ pc = "ready"
  /\ remaining = <<>>
  /\ pc' = "done"
  /\ UNCHANGED <<orig, remaining, arg, out, yielded, calls>>

Next == DecodeOk \/ DecodeErr \/ Finish

Spec == Init /\ [][Next]_vars

\* The caller's loop runs on: a step that can be taken is eventually taken.
FairSpec == Spec /\ WF_vars(Next)

(***************************************************************************)
(* Vocabulary of the properties                                            *)
(***************************************************************************)

\* out is the result of tops_1_6_message(arg).
Called == calls > 0

\* What a caller can tell about a failure: nom's Err variant, its ErrorKind, and
\* how far into the call's input the error position lies.
FailureClass(r, a) == <<r.variant, r.code, Len(a) - Len(r.input)>>

FailureClassOf(b) == With(tops_1_6_message(b), LAMBDA r : FailureClass(r, b))

\* The three kinds of failure of the documented contract, for a failing input.
Category(a) ==
  IF a[1] \notin KnownTags THEN "UnrecognizedTag"
  ELSE IF Len(a) < MessageLen(KindOfTag(a[1])) THEN "Incomplete"
  ELSE "Malformed"

\* A full-length QuoteUpdate whose lowest reserved flag bit is set.
MalformedQuote == Frame(QuoteVector, 1, Len(QuoteVector))

\* One failing input of each kind: an unknown tag, the first 5 bytes of a
\* QuoteUpdate, a QuoteUpdate with a reserved bit.
ReferenceFailures == { <<255>>, SubSeq(QuoteVector, 1, 5), MalformedQuote }

\* a with its first byte replaced by the unassigned tag 0xFF.
UnknownOf(a) == [a EXCEPT ![1] = 255]

U32At(s, p) == s[p] + 256 * s[p + 1] + 65536 * s[p + 2] + 16777216 * s[p + 3]

\* The bytes the last successful call consumed.
Used == SubSeq(arg, 1, Len(arg) - Len(out.rest))

(***************************************************************************)
(* C1                                                                      *)
(***************************************************************************)

\* C1: a buffer whose first byte is one of the eleven tags and that is shorter
\* than the full message yields no record, and its failure can be told apart from
\* the failure for an unknown tag and from the failure for a malformed body.
C1_IncompleteDistinguished ==
  (Called /\ arg[1] \in KnownTags /\ Len(arg) < MessageLen(KindOfTag(arg[1])))
    => /\ ~out.ok
       /\ FailureClass(out, arg) # FailureClassOf(UnknownOf(arg))
       /\ FailureClass(out, arg) # FailureClassOf(MalformedQuote)

(***************************************************************************)
(* C2                                                                      *)
(***************************************************************************)

ReservedBitSet(a) ==
  /\ Len(a) >= 2
  /\ \/ a[1] = TagQuoteUpdate /\ a[2] % 64 # 0
     \/ a[1] = TagTradeReport /\ a[2] % 8 # 0

\* C2: a buffer with tag 0x51 and a flag byte with any of its 6 low bits set, or
\* with tag 0x54 and a flag byte with any of its 3 low bits set, fails to decode
\* whatever its length and its other bytes; no message variant is returned.
C2_ReservedBitsRejected ==
  (Called /\ ReservedBitSet(arg)) => ~out.ok

\* A full-length TradeReport with a reserved bit set was refused.
C2_Witness ==
  /\ Called
  /\ arg[1] = TagTradeReport
  /\ Len(arg) = MessageLen("TradeReport")
  /\ arg[2] % 8 = 4
  /\ ~out.ok

(***************************************************************************)
(* C3                                                                      *)
(***************************************************************************)

\* C3: every failure is of exactly one of the kinds Malformed, UnrecognizedTag
\* and Incomplete, and the caller can tell which: a failing call's failure differs
\* from the failure of an input of another kind (a full-length QuoteUpdate with a
\* reserved bit does not fail the way a buffer starting with 0xFF does).
C3_FailureKindsDistinct ==
  (Called /\ ~out.ok)
    => \A b \in ReferenceFailures :
         Category(b) # Category(arg) => FailureClassOf(b) # FailureClass(out, arg)

(***************************************************************************)
(* C4                                                                      *)
(***************************************************************************)

WellFormedFlags(a) ==
  /\ Len(a) >= 2
  /\ \/ a[1] = TagQuoteUpdate /\ a[2] % 64 = 0
     \/ a[1] = TagTradeReport /\ a[2] % 8 = 0

DecodedAs(kind, len) ==
  /\ out.ok
  /\ out.value.kind = kind
  /\ out.rest = Drop(arg, len)

\* C4 as stated: a QuoteUpdate and a TradeReport each occupy 1 + 33 bytes; a
\* well-formed buffer of at least that length decodes to the variant and exactly
\* 34 bytes are consumed.
C4_DocumentedLengths ==
  (Called /\ WellFormedFlags(arg) /\ Len(arg) >= 1 + 33)
    => DecodedAs(KindOfTag(arg[1]), 1 + 33)

\* C4, amended: a QuoteUpdate occupies 1 + 41 bytes (flags 1, timestamp 8, symbol
\* 8, bid size 4, bid price 8, ask price 8, ask size 4) and a TradeReport 1 + 37
\* bytes (flags 1, timestamp 8, symbol 8, size 4, price 8, id 8); a well-formed
\* buffer of at least that length decodes to the variant and exactly those bytes
\* are consumed, none remaining when the buffer is one message.
C4_WireLengths ==
  /\ (Called /\ WellFormedFlags(arg) /\ arg[1] = TagQuoteUpdate /\ Len(arg) >= 1 + 41)
       => DecodedAs("QuoteUpdate", 1 + 41)
  /\ (Called /\ WellFormedFlags(arg) /\ arg[1] = TagTradeReport /\ Len(arg) >= 1 + 37)
       => DecodedAs("TradeReport", 1 + 37)

\* The 42-byte reference QuoteUpdate was decoded with nothing remaining.
C4_Witness ==
  /\ Called
  /\ arg = QuoteVector
  /\ out.ok
  /\ out.value.kind = "QuoteUpdate"
  /\ out.rest = <<>>

(***************************************************************************)
(* C5                                                                      *)
(***************************************************************************)

\* <<tag, body length, variant>> of the eight opaque kinds, as documented.
OpaqueTable ==
  { <<68, 30, "SecurityDirectory">>, <<72, 21, "TradingStatus">>,
    <<73, 17, "RetailLiquidityIndicator">>, <<79, 17, "OperationalHaltStatus">>,
    <<80, 18, "ShortSalePriceTestStatus">>, <<88, 25, "OfficialPrice">>,
    <<66, 37, "TradeBreak">>, <<65, 79, "AuctionInformation">> }

\* C5: a buffer that starts with the tag of an opaque kind and holds at least
\* 1 + length bytes decodes to that kind's payload-free marker, whatever the body
\* bytes, and the remainder is the input without its first 1 + length bytes.
C5_OpaqueConsumed ==
  Called =>
    \A e \in OpaqueTable :
      (arg[1] = e[1] /\ Len(arg) >= 1 + e[2])
        => out = Ok(Drop(arg, 1 + e[2]), [kind |-> e[3]])

\* An AuctionInformation followed by one more byte was decoded and left that byte.
C5_Witness ==
  /\ Called
  /\ arg[1] = 65
  /\ Len(arg) = 1 + 79 + 1
  /\ out.ok
  /\ out.value = [kind |-> "AuctionInformation"]
  /\ out.rest = <<arg[Len(arg)]>>

(***************************************************************************)
(* C6                                                                      *)
(***************************************************************************)

SystemEventOf(a, b1) == Called /\ arg[1] = 83 /\ Len(arg) >= 10 /\ arg[2] = b1

DecodedEvent(kind) ==
  /\ out.ok
  /\ out.value.kind = "SystemEvent"
  /\ out.value.payload.event_type = kind

\* C6 as stated: 0x4F as first byte selects OperationalHaltStatus, and as the
\* subtype byte after 0x53 it selects the kind EndOfSystemHours.
C6_SubtypeEndOfSystemHours ==
  /\ (Called /\ arg[1] = 79 /\ Len(arg) >= 1 + 17)
       => (out.ok /\ out.value.kind = "OperationalHaltStatus")
  /\ SystemEventOf(arg, 79) => DecodedEvent("EndOfSystemHours")

\* C6, amended: 0x4F as first byte selects OperationalHaltStatus, and as the
\* subtype byte after 0x53 it selects the kind StartOfMessages; EndOfSystemHours
\* is selected by the subtype byte 0x45.
C6_SubtypeStartOfMessages ==
  /\ (Called /\ arg[1] = 79 /\ Len(arg) >= 1 + 17)
       => (out.ok /\ out.value.kind = "OperationalHaltStatus")
  /\ SystemEventOf(arg, 79) => DecodedEvent("StartOfMessages")
  /\ SystemEventOf(arg, 69) => DecodedEvent("EndOfSystemHours")

\* The 10-byte buffer 0x53 0x4F and a timestamp was decoded.
C6_Witness ==
  /\ SystemEventOf(arg, 79)
  /\ Len(arg) = 10
  /\ DecodedEvent("StartOfMessages")
  /\ out.rest = <<>>

(***************************************************************************)
(* C7                                                                      *)
(***************************************************************************)

\* C7: in a complete QuoteUpdate whose flag byte b has its 6 low bits clear,
\* available is true exactly when bit 0x80 of b is 0 and market_session is
\* OutOfHours exactly when bit 0x40 of b is 1.
C7_FlagBitsMsbFirst ==
  (Called /\ arg[1] = TagQuoteUpdate /\ Len(arg) >= MessageLen("QuoteUpdate")
     /\ arg[2] % 64 = 0)
    => /\ out.ok
       /\ out.value.kind = "QuoteUpdate"
       /\ out.value.payload.available = ((arg[2] \div 128) % 2 = 0)
       /\ (out.value.payload.market_session = "OutOfHours") = ((arg[2] \div 64) % 2 = 1)
       /\ out.value.payload.market_session \in {"OutOfHours", "Regular"}

\* A QuoteUpdate with flag byte 0x80 was decoded: not available, regular session.
C7_Witness ==
  /\ Called
  /\ Len(arg) >= 2
  /\ arg[1] = TagQuoteUpdate
  /\ arg[2] = 128
  /\ out.ok
  /\ out.value.kind = "QuoteUpdate"
  /\ out.value.payload.available = FALSE
  /\ out.value.payload.market_session = "Regular"

(***************************************************************************)
(* C8                                                                      *)
(***************************************************************************)

\* C8: in every successful QuoteUpdate decode the last 4 consumed bytes are the
\* ask size, the 8 bytes before them the ask price, the 8 bytes before those the
\* bid price, and the 4 bytes before the bid price the bid size: size then price
\* on the bid side, price then size on the ask side.
C8_QuoteFieldOrder ==
  (Called /\ out.ok /\ out.value.kind = "QuoteUpdate")
    => LET n == Len(Used)
           q == out.value.payload
       IN /\ q.ask_size = U32At(Used, n - 3)
          /\ q.ask_price = Limbs(SubSeq(Used, n - 11, n - 4))
          /\ q.bid_price = Limbs(SubSeq(Used, n - 19, n - 12))
          /\ q.bid_size = U32At(Used, n - 23)
          /\ q.symbol = SubSeq(Used, n - 31, n - 32 + Len(q.symbol))
          /\ q.timestamp = Limbs(SubSeq(Used, n - 39, n - 32))

\* The reference QuoteUpdate was decoded: bid size 9700, ask size 1000, bid
\* price 990500 and ask price 990700 in units of 1/10000.
C8_Witness ==
  /\ Called
  /\ out.ok
  /\ out.value.kind = "QuoteUpdate"
  /\ out.value.payload.bid_size = 9700
  /\ out.value.payload.ask_size = 1000
  /\ out.value.payload.bid_price = <<7460, 15, 0, 0>>
  /\ out.value.payload.ask_price = <<7660, 15, 0, 0>>

(***************************************************************************)
(* C9                                                                      *)
(***************************************************************************)

Rotate(s, n) == [i \in 1..Len(s) |-> s[((i - 1 + n) % Len(s)) + 1]]

Reverse(s) == [i \in 1..Len(s) |-> s[Len(s) + 1 - i]]

\* Priority orders other than the one of the code: every rotation, which puts
\* each alternative first once, and the reverse order.
Orders ==
  {Rotate(Alternatives, n) : n \in 1..(Len(Alternatives) - 1)}
    \cup {Reverse(Alternatives)}

\* The decoder selected by a lookup on the first byte.
Lookup(a) ==
  IF a[1] \in KnownTags
    THEN Alternative(KindOfTag(a[1]), a)
    ELSE ErrError(a, "Tag")

\* C9: the eleven tags are pairwise distinct, at most one shape decoder succeeds
\* on an input, the dispatcher returns a record exactly when the decoder selected
\* by the first byte succeeds, with the same record and remainder, and no other
\* priority order of the alternatives changes a successful result.
C9_DispatchIsLookup ==
  Called =>
    /\ Cardinality(KnownTags) = Len(Alternatives)
    /\ Cardinality({kind \in Kinds : Alternative(kind, arg).ok}) <= 1
    /\ With(Lookup(arg), LAMBDA sel : sel.ok = out.ok /\ (out.ok => sel = out))
    /\ \A order \in Orders :
         With(alt(order, 1, arg), LAMBDA r : r.ok = out.ok /\ (out.ok => r = out))

\* A TradeReport, eighth in the priority order, was decoded.
C9_Witness ==
  /\ Called
  /\ out.ok
  /\ out.value.kind = "TradeReport"
  /\ Lookup(arg) = out

(***************************************************************************)
(* C10                                                                     *)
(***************************************************************************)

RECURSIVE WireOrder(_, _)
\* The records k.. of yielded start where the one before ended and carry the kind
\* of the tag found there.
WireOrder(k, at) ==
  IF k > Len(yielded) THEN at = Len(orig) - Len(remaining)
  ELSE /\ yielded[k].at = at
       /\ orig[at + 1] = TagOf(yielded[k].msg.kind)
       /\ WireOrder(k + 1, at + MessageLen(yielded[k].msg.kind))

C10_Safety ==
  /\ (Called /\ out.ok)
       => /\ Len(arg) - Len(out.rest) >= 10
          /\ out.rest = Drop(arg, Len(arg) - Len(out.rest))
          /\ remaining = out.rest
          /\ Len(yielded) = calls
  /\ (Called /\ ~out.ok)
       => /\ DOMAIN out = {"ok", "variant", "input", "code"}
          /\ remaining = arg
          /\ Len(yielded) = calls - 1
          /\ pc = "failed"
  /\ calls <= Len(orig)
  /\ 10 * Len(yielded) <= Len(orig) - Len(remaining)
  /\ remaining = Drop(orig, Len(orig) - Len(remaining))
  /\ WireOrder(1, 0)
  /\ pc = "done" => remaining = <<>>
  /\ pc = "failed" => (Called /\ ~out.ok)

\* C10: a successful call consumes at least 10 bytes and returns a strict suffix
\* of its input; a failing call returns no record and leaves the cursor; the loop
\* that feeds each remainder back ends, after at most as many calls as the buffer
\* has bytes, with an empty remainder or a failure, and the records it yielded are
\* the buffer's messages in wire order.
C10_LoopTerminatesInOrder ==
  /\ []C10_Safety
  /\ <>(pc \in {"done", "failed"})

\* Three messages were decoded in three calls and the buffer was used up.
C10_Witness ==
  /\ pc = "done"
  /\ calls = 3
  /\ Len(yielded) = 3
  /\ yielded[1].msg.kind = "QuoteUpdate"
  /\ yielded[2].msg.kind = "SystemEvent"
  /\ yielded[3].msg.kind = "OperationalHaltStatus"
  /\ remaining = <<>>

====
